---- MODULE Spec2Model ----
(***************************************************************************)
(* Aura SEG-Y View (src/aura_gatherview.py): the window / header-format    *)
(* controller of class AuraSEGYView.  The state is the instance `self`     *)
(* (its fields and the values held by its widgets); the operations are the *)
(* event handlers OnOpenSEGY, onScroll and onEnter together with every     *)
(* method they call.  The SEG-Y reader (auralib) is external: each of its  *)
(* calls either returns or raises, chosen by the environment, and the      *)
(* model records the trace range every read is issued for.                 *)
(***************************************************************************)
EXTENDS Integers, Sequences, FiniteSets, TLC

VARIABLES self, ev

vars == <<self, ev>>

----------------------------------------------------------------------------
(* Bounds of the model *)

MaxTraces == 3
MaxStart == 3
MaxWidth == 2

(* Program constants *)

DefaultNumTraces == 1000000
DefaultNumDisp == 500
DefaultHead1Pos == 29
DefaultHead2Pos == 37
DefaultAmp == 5000

----------------------------------------------------------------------------
(* Text <-> number conversions.  A text is a sequence of characters. *)

Digits == <<"0", "1", "2", "3", "4", "5", "6", "7", "8", "9">>

IsDigit(c) == \E i \in 1..10 : Digits[i] = c

DigitVal(c) == (CHOOSE i \in 1..10 : Digits[i] = c) - 1

RECURSIVE DigitsVal(_)
DigitsVal(s) ==
  IF s = <<>> THEN 0
  ELSE DigitsVal(SubSeq(s, 1, Len(s) - 1)) * 10 + DigitVal(s[Len(s)])

(* Python int(text): optional sign, then one or more decimal digits;       *)
(* anything else raises ValueError (ok = FALSE).                           *)
int(s) ==
  LET neg  == Len(s) > 0 /\ s[1] = "-"
      body == IF neg THEN Tail(s) ELSE s
      ok   == Len(body) > 0 /\ \A i \in 1..Len(body) : IsDigit(body[i])
  IN [ok |-> ok,
      v  |-> IF ok THEN (IF neg THEN 0 - DigitsVal(body) ELSE DigitsVal(body))
             ELSE 0]

(* Python float(text) on the texts of this model (sign, digits, letters):  *)
(* the accepted texts are the integer literals.                            *)
float(s) == int(s)

RECURSIVE str(_)
str(n) ==
  IF n < 0 THEN <<"-">> \o str(0 - n)
  ELSE IF n < 10 THEN <<Digits[n + 1]>>
  ELSE str(n \div 10) \o <<Digits[(n % 10) + 1]>>

----------------------------------------------------------------------------
(* The inputs a user can supply *)

Unparseable == <<"x">>

StartTexts == {str(k) : k \in 1..MaxStart} \cup {Unparseable}
WidthTexts == {str(k) : k \in 1..(MaxWidth - 1)} \cup {<<"0">> \o str(MaxWidth)}
                \cup {str(DefaultNumDisp), Unparseable}
AmpMinTexts == {str(0 - DefaultAmp), str(0 - 9)}
AmpMaxTexts == {str(DefaultAmp), Unparseable}
H1PosTexts == {str(DefaultHead1Pos), str(1)}
H2PosTexts == {str(DefaultHead2Pos), Unparseable}
H1FmtTexts == {"h", "s", "bogus"}
H2FmtTexts == {"l", "ibm"}

Paths == {"a.sgy"}
Cancel == ""

(* Number of traces the reader reports for a file. *)
TracesIn(p) == MaxTraces

(* The reader call of one event that raises: opening the reader, the header *)
(* read, the trace read, or none of them.                                   *)
ReaderOutcomes == {"none", "ctor", "head", "trace"}

----------------------------------------------------------------------------
(* Values *)

NoRange == [loaded |-> FALSE, t0 |-> 0, t1 |-> 0]
Range(a, b) == [loaded |-> TRUE, t0 |-> a, t1 |-> b]

NoSegy == [alive |-> FALSE, file |-> "", num_traces |-> 0, thead |-> NoRange]

NoCall == [n |-> 0, t0 |-> 0, t1 |-> 0, start |-> 0, width |-> 0, total |-> 0,
           pushed |-> FALSE, push |-> 0, slBefore |-> 0, slAfter |-> 0]

NoPlot == [drawn |-> FALSE, xmin |-> 0, xmax |-> 0]

(* What the last handler did: which handler ran and the exception that ended *)
(* it ("ok" when none), whether it found only the header fields edited and   *)
(* whether it resolved the window already loaded, the reader calls it issued *)
(* and the extent it plotted.                                                *)
QuietLog(kind) == [kind |-> kind, out |-> "ok", hdrOnly |-> FALSE,
                   sameWin |-> FALSE, hdr |-> NoCall, trc |-> NoCall,
                   plot |-> NoPlot]

----------------------------------------------------------------------------
(* Widgets *)

(* wx.Slider.SetValue: the slider keeps its value inside its range [1, slMax] *)
SetValue(s, v) == IF v < 1 THEN 1 ELSE IF v > s.slMax THEN s.slMax ELSE v

(* The other text fields show the session's values and a header field differs: *)
(* the user has edited only the header field definitions.                      *)
HeaderOnlyEdit(s) ==
  /\ int(s.tcCurTrc) = [ok |-> TRUE, v |-> s.cur_trace]
  /\ int(s.tc1) = [ok |-> TRUE, v |-> s.num_disp_traces]
  /\ float(s.tcAmpMin) = [ok |-> TRUE, v |-> s.amp_min]
  /\ float(s.tcAmpMax) = [ok |-> TRUE, v |-> s.amp_max]
  /\ \/ s.tcH1Fmt # s.head1_fmt
     \/ s.tcH2Fmt # s.head2_fmt
     \/ int(s.tcH1Pos) # [ok |-> TRUE, v |-> s.head1_pos]
     \/ int(s.tcH2Pos) # [ok |-> TRUE, v |-> s.head2_pos]

(* A handler runs on a frame: the instance, the pending exception ("" when  *)
(* none), the record of what the handler did, the buffers held when it      *)
(* started, and the event's inputs: the file dialog's answer and the reader *)
(* call that raises.                                                        *)
Frame(s, kind, dlg, rd) ==
  [self |-> s, exc |-> "",
   log  |-> [QuietLog(kind) EXCEPT
               !.hdrOnly = (kind = "enter" /\ HeaderOnlyEdit(s))],
   pre  |-> [thead |-> s.segybuf.thead, tdata |-> s.tdata],
   dlg  |-> dlg, rd |-> rd]

Raise(m, e) == [m EXCEPT !.exc = e]

(* Statement sequencing: nothing runs after an exception. *)
Then(m, Op(_)) == IF m.exc # "" THEN m ELSE Op(m)

Finish(m) == [m.log EXCEPT !.out = IF m.exc = "" THEN "ok" ELSE m.exc]

----------------------------------------------------------------------------
(* set_def_thead *)

KnownFmt == {"l", "f", "ibm", "h", "s"}

NByte(fmt) == IF fmt \in {"l", "f", "ibm"} THEN 4 ELSE IF fmt = "h" THEN 2 ELSE 1

(* lines 365-366 *)
ReadHeadFmt(m) ==
  [m EXCEPT !.self.head1_fmt = m.self.tcH1Fmt, !.self.head2_fmt = m.self.tcH2Fmt]

(* line 368 *)
ReadHead1Pos(m) ==
  LET p == int(m.self.tcH1Pos)
  IN IF p.ok THEN [m EXCEPT !.self.head1_pos = p.v] ELSE Raise(m, "ValueError")

(* line 369 *)
ReadHead2Pos(m) ==
  LET p == int(m.self.tcH2Pos)
  IN IF p.ok THEN [m EXCEPT !.self.head2_pos = p.v] ELSE Raise(m, "ValueError")

(* lines 371-391: h1_nbyte / h2_nbyte stay unbound for an unknown code *)
BuildDefThead(m) ==
  IF m.self.head1_fmt \notin KnownFmt \/ m.self.head2_fmt \notin KnownFmt
  THEN Raise(m, "UnboundLocalError")
  ELSE [m EXCEPT !.self.def_thead =
          [head1 |-> [bpos |-> m.self.head1_pos, fmt |-> m.self.head1_fmt,
                      nbyte |-> NByte(m.self.head1_fmt)],
           head2 |-> [bpos |-> m.self.head2_pos, fmt |-> m.self.head2_fmt,
                      nbyte |-> NByte(m.self.head2_fmt)]]]

set_def_thead(m) ==
  Then(Then(Then(ReadHeadFmt(m), ReadHead1Pos), ReadHead2Pos), BuildDefThead)

----------------------------------------------------------------------------
(* The window computed by getSegyTraces and getSegyHeaders *)

(* Mutation: the overrunning window is truncated at the end of the file *)
(* instead of being shifted left.                                      *)
ResolveRange_Truncate(cur, n, total) ==
  IF cur + n - 1 > total
  THEN [t0 |-> cur - 1, t1 |-> total, shift |-> TRUE]
  ELSE [t0 |-> cur - 1, t1 |-> cur + n - 1, shift |-> FALSE]

(* Mutation: the overrun test reads >= where the code reads >. *)
ResolveRange_ShiftAtEnd(cur, n, total) ==
  IF cur + n - 1 >= total
  THEN [t0 |-> total - n, t1 |-> total, shift |-> TRUE]
  ELSE [t0 |-> cur - 1, t1 |-> cur + n - 1, shift |-> FALSE]

ResolveRange(cur, n, total) ==
  IF cur + n - 1 > total
  THEN [t0 |-> total - n, t1 |-> total, shift |-> TRUE]
  ELSE [t0 |-> cur - 1, t1 |-> cur + n - 1, shift |-> FALSE]

Resolved(s) == ResolveRange(s.cur_trace, s.num_disp_traces, s.num_traces)

(* self.sl1.SetValue(t0+1), issued only when the window was shifted *)
PushSlider(s) ==
  IF Resolved(s).shift THEN SetValue(s, Resolved(s).t0 + 1) ELSE s.sl1

Call(s) ==
  [n |-> 1, t0 |-> Resolved(s).t0, t1 |-> Resolved(s).t1,
   start |-> s.cur_trace, width |-> s.num_disp_traces, total |-> s.num_traces,
   pushed |-> Resolved(s).shift,
   push |-> IF Resolved(s).shift THEN Resolved(s).t0 + 1 ELSE 0,
   slBefore |-> s.sl1, slAfter |-> PushSlider(s)]

(* The window now requested resolves to the one both buffers were holding *)
(* when the handler started.                                              *)
SameWindow(m) ==
  /\ m.pre.thead = Range(Resolved(m.self).t0, Resolved(m.self).t1)
  /\ m.pre.tdata = Range(Resolved(m.self).t0, Resolved(m.self).t1)

(* Mutation: the header read is skipped when the requested window is the *)
(* one already loaded.                                                   *)
getSegyHeaders_Idempotent(m) ==
  IF m.log.sameWin THEN m
  ELSE IF m.rd # "head"
  THEN [m EXCEPT !.self.sl1 = PushSlider(m.self),
                 !.self.segybuf.thead = Range(Resolved(m.self).t0, Resolved(m.self).t1),
                 !.log.hdr = Call(m.self)]
  ELSE [m EXCEPT !.self.sl1 = PushSlider(m.self), !.exc = "IOError",
                 !.log.hdr = Call(m.self)]

getSegyHeaders(m) ==
  IF m.rd # "head"
  THEN [m EXCEPT !.self.sl1 = PushSlider(m.self),
                 !.self.segybuf.thead = Range(Resolved(m.self).t0, Resolved(m.self).t1),
                 !.log.hdr = Call(m.self)]
  ELSE [m EXCEPT !.self.sl1 = PushSlider(m.self), !.exc = "IOError",
                 !.log.hdr = Call(m.self)]

(* plotSegyHeaders / plotSegyTraces: the x extent of both plots *)
plotSegyTraces(m) ==
  [m EXCEPT !.log.plot = [drawn |-> TRUE, xmin |-> m.self.cur_trace,
                          xmax |-> m.self.cur_trace + m.self.num_disp_traces]]

(* Mutation: the trace read is skipped when the trace buffer already holds *)
(* the resolved range.                                                    *)
getSegyTraces_Cached(m) ==
  IF m.self.tdata = Range(Resolved(m.self).t0, Resolved(m.self).t1)
  THEN plotSegyTraces(m)
  ELSE IF m.rd # "trace"
  THEN plotSegyTraces(
         [m EXCEPT !.self.sl1 = PushSlider(m.self),
                   !.self.tdata = Range(Resolved(m.self).t0, Resolved(m.self).t1),
                   !.log.trc = Call(m.self)])
  ELSE [m EXCEPT !.self.sl1 = PushSlider(m.self), !.exc = "IOError",
                 !.log.trc = Call(m.self)]

getSegyTraces(m) ==
  IF m.rd # "trace"
  THEN plotSegyTraces(
         [m EXCEPT !.self.sl1 = PushSlider(m.self),
                   !.self.tdata = Range(Resolved(m.self).t0, Resolved(m.self).t1),
                   !.log.trc = Call(m.self)])
  ELSE [m EXCEPT !.self.sl1 = PushSlider(m.self), !.exc = "IOError",
                 !.log.trc = Call(m.self)]

(* aura.segy.Segy(gather_file, def_thead): raises when the file cannot be read *)
Segy(m) ==
  IF m.rd # "ctor" /\ m.self.gather_file # ""
  THEN [m EXCEPT !.self.segybuf =
          [alive |-> TRUE, file |-> m.self.gather_file,
           num_traces |-> TracesIn(m.self.gather_file), thead |-> NoRange]]
  ELSE Raise(m, "IOError")

(* del(self.segybuf) *)
delSegybuf(m) ==
  IF m.self.segybuf.alive THEN [m EXCEPT !.self.segybuf = NoSegy]
  ELSE Raise(m, "AttributeError")

----------------------------------------------------------------------------
(* Event handlers *)

(* lines 271-272 *)
ReadCurFromSlider(m) ==
  [m EXCEPT !.self.cur_trace = m.self.sl1, !.self.tcCurTrc = str(m.self.sl1)]

(* lines 282-283 *)
ReadCurFromText(m) ==
  LET c == int(m.self.tcCurTrc)
  IN IF c.ok THEN [m EXCEPT !.self.cur_trace = c.v, !.self.sl1 = SetValue(m.self, c.v)]
     ELSE Raise(m, "ValueError")

(* lines 273, 284: start and width are both set once this has run *)
ReadNumDisp(m) ==
  LET w == int(m.self.tc1)
  IN IF w.ok
     THEN [m EXCEPT !.self.num_disp_traces = w.v,
                    !.log.sameWin = SameWindow([m EXCEPT !.self.num_disp_traces = w.v])]
     ELSE Raise(m, "ValueError")

(* line 285 *)
ReadAmpMin(m) ==
  LET a == float(m.self.tcAmpMin)
  IN IF a.ok THEN [m EXCEPT !.self.amp_min = a.v] ELSE Raise(m, "ValueError")

(* line 286 *)
ReadAmpMax(m) ==
  LET a == float(m.self.tcAmpMax)
  IN IF a.ok THEN [m EXCEPT !.self.amp_max = a.v] ELSE Raise(m, "ValueError")

onScroll(m) ==
  Then(Then(Then(Then(Then(Then(
    ReadCurFromSlider(m),
    ReadNumDisp), set_def_thead), delSegybuf), Segy), getSegyHeaders), getSegyTraces)

onEnter(m) ==
  Then(Then(Then(Then(Then(Then(Then(Then(Then(
    ReadCurFromText(m),
    ReadNumDisp), ReadAmpMin), ReadAmpMax), set_def_thead), delSegybuf), Segy),
    set_def_thead), getSegyHeaders), getSegyTraces)

(* lines 407-408: the path is taken only when the dialog is confirmed *)
ChooseFile(m) ==
  IF m.dlg # Cancel THEN [m EXCEPT !.self.gather_file = m.dlg] ELSE m

(* lines 417-421 *)
AdoptNumTraces(m) ==
  LET s == [m.self EXCEPT !.num_traces = m.self.segybuf.num_traces,
                          !.slMax = m.self.segybuf.num_traces]
  IN [m EXCEPT !.self = [s EXCEPT !.sl1 = SetValue(s, 1), !.cur_trace = SetValue(s, 1)]]

OnOpenSEGY(m) ==
  Then(Then(Then(Then(Then(
    ChooseFile(m),
    set_def_thead), Segy), AdoptNumTraces), getSegyHeaders), getSegyTraces)

----------------------------------------------------------------------------
(* The state machine *)

Init ==
  /\ self = [cur_trace |-> 1, num_disp_traces |-> DefaultNumDisp,
             num_traces |-> DefaultNumTraces, gather_file |-> "",
             head1_pos |-> DefaultHead1Pos, head1_fmt |-> "h",
             head2_pos |-> DefaultHead2Pos, head2_fmt |-> "l",
             amp_min |-> 0 - DefaultAmp, amp_max |-> DefaultAmp,
             sl1 |-> 1, slMax |-> DefaultNumTraces,
             tc1 |-> str(DefaultNumDisp), tcCurTrc |-> str(1),
             tcAmpMin |-> str(0 - DefaultAmp), tcAmpMax |-> str(DefaultAmp),
             tcH1Pos |-> str(DefaultHead1Pos), tcH2Pos |-> str(DefaultHead2Pos),
             tcH1Fmt |-> "h", tcH2Fmt |-> "l",
             def_thead |-> [head1 |-> [bpos |-> DefaultHead1Pos, fmt |-> "h", nbyte |-> 2],
                            head2 |-> [bpos |-> DefaultHead2Pos, fmt |-> "l", nbyte |-> 4]],
             segybuf |-> NoSegy, tdata |-> NoRange]
  /\ ev = QuietLog("init")

(* The user types into a text field; no handler runs until Enter is pressed. *)
TypeCurTrc == \E t \in StartTexts :
  t # self.tcCurTrc /\ self' = [self EXCEPT !.tcCurTrc = t] /\ ev' = QuietLog("edit")

TypeWidth == \E t \in WidthTexts :
  t # self.tc1 /\ self' = [self EXCEPT !.tc1 = t] /\ ev' = QuietLog("edit")

TypeAmpMin == \E t \in AmpMinTexts :
  t # self.tcAmpMin /\ self' = [self EXCEPT !.tcAmpMin = t] /\ ev' = QuietLog("edit")

TypeAmpMax == \E t \in AmpMaxTexts :
  t # self.tcAmpMax /\ self' = [self EXCEPT !.tcAmpMax = t] /\ ev' = QuietLog("edit")

TypeH1Pos == \E t \in H1PosTexts :
  t # self.tcH1Pos /\ self' = [self EXCEPT !.tcH1Pos = t] /\ ev' = QuietLog("edit")

TypeH2Pos == \E t \in H2PosTexts :
  t # self.tcH2Pos /\ self' = [self EXCEPT !.tcH2Pos = t] /\ ev' = QuietLog("edit")

TypeH1Fmt == \E t \in H1FmtTexts :
  t # self.tcH1Fmt /\ self' = [self EXCEPT !.tcH1Fmt = t] /\ ev' = QuietLog("edit")

TypeH2Fmt == \E t \in H2FmtTexts :
  t # self.tcH2Fmt /\ self' = [self EXCEPT !.tcH2Fmt = t] /\ ev' = QuietLog("edit")

(* The user drags the slider to v; EVT_SCROLL_CHANGED runs onScroll. *)
Scroll == \E v \in 1..MaxStart, rd \in ReaderOutcomes :
  /\ v <= self.slMax
  /\ \E m \in {onScroll(Frame([self EXCEPT !.sl1 = v], "scroll", Cancel, rd))} :
       self' = m.self /\ ev' = Finish(m)

(* Enter in any text field runs onEnter. *)
Enter == \E rd \in ReaderOutcomes :
  \E m \in {onEnter(Frame(self, "enter", Cancel, rd))} :
    self' = m.self /\ ev' = Finish(m)

(* File > Open SEG-Y File... *)
OpenSEGY == \E dlg \in Paths \cup {Cancel}, rd \in ReaderOutcomes :
  \E m \in {OnOpenSEGY(Frame(self, "open", dlg, rd))} :
    self' = m.self /\ ev' = Finish(m)

(* Window editing: the user opens files, scrolls and edits start and width. *)
Next ==
  \/ TypeCurTrc
  \/ TypeWidth
  \/ Scroll
  \/ Enter
  \/ OpenSEGY

Spec == Init /\ [][Next]_vars

(* Header definition editing. *)
NextHdr ==
  \/ TypeH1Pos
  \/ TypeH2Pos
  \/ TypeH1Fmt
  \/ TypeH2Fmt
  \/ Enter
  \/ OpenSEGY

SpecHdr == Init /\ [][NextHdr]_vars

(* Width and amplitude editing. *)
NextAmp ==
  \/ TypeWidth
  \/ TypeAmpMin
  \/ TypeAmpMax
  \/ Enter
  \/ OpenSEGY

SpecAmp == Init /\ [][NextAmp]_vars

----------------------------------------------------------------------------
(* Properties *)

Calls == {ev.hdr, ev.trc}

Overruns(L) == L.start - 1 + L.width > L.total

WindowEvents == {"open", "scroll", "enter"}

(* C1: for total_traces >= 0, requested_start >= 1 and requested_width >= 1 *)
(* the range [t0, t1) passed to the reader by getSegyTraces and             *)
(* getSegyHeaders satisfies 0 <= t0 <= t1 <= total_traces.                  *)
C1_RangeInBounds ==
  \A L \in Calls :
    (L.n = 1 /\ L.total >= 0 /\ L.start >= 1 /\ L.width >= 1)
      => (0 <= L.t0 /\ L.t0 <= L.t1 /\ L.t1 <= L.total)

(* C2: when the requested window overruns the file and its width is at most *)
(* total_traces, the range read is t0 = total_traces - width, t1 =          *)
(* total_traces, and the start pushed to the slider is t0 + 1.              *)
C2_ShiftLeftKeepsWidth ==
  \A L \in Calls :
    (L.n = 1 /\ Overruns(L) /\ L.width <= L.total)
      => /\ L.t0 = L.total - L.width
         /\ L.t1 = L.total
         /\ L.pushed /\ L.push = L.t0 + 1
         /\ L.width >= 1 => (L.slAfter = L.t0 + 1 /\ self.sl1 = L.t0 + 1)

C2_Witness ==
  /\ ev.out = "ok" /\ ev.hdr.n = 1 /\ ev.trc.n = 1
  /\ Overruns(ev.trc) /\ ev.trc.width <= ev.trc.total
  /\ ev.trc.start - 1 # ev.trc.t0

(* C3: when requested_start - 1 + requested_width <= total_traces the range *)
(* read is the request itself, t0 = start - 1 and t1 = t0 + width, and the  *)
(* load does not rewrite the slider.                                        *)
C3_NoShiftWithinFile ==
  \A L \in Calls :
    (L.n = 1 /\ ~Overruns(L))
      => /\ L.t0 = L.start - 1
         /\ L.t1 = L.t0 + L.width
         /\ ~L.pushed
         /\ L.slAfter = L.slBefore

C3_Witness ==
  /\ ev.out = "ok" /\ ev.hdr.n = 1 /\ ev.trc.n = 1
  /\ ~Overruns(ev.trc) /\ ev.trc.start > 1
  /\ ev.trc.start - 1 + ev.trc.width = ev.trc.total

(* C4: after a window change completes (open, scroll or enter) cur_trace,   *)
(* the current-trace field and the plotted extent start at the resolved     *)
(* start t0 + 1 of the window actually loaded.                              *)
C4_CurTraceIsResolvedStart ==
  (ev.kind \in WindowEvents /\ ev.out = "ok")
    => /\ self.cur_trace = ev.trc.t0 + 1
       /\ int(self.tcCurTrc) = [ok |-> TRUE, v |-> ev.trc.t0 + 1]
       /\ ev.plot.xmin = ev.trc.t0 + 1

(* C5: in every state between events the header buffer and the trace buffer *)
(* were fetched for the same range, and that range is the session's current *)
(* window.                                                                  *)
C5_BuffersMatchWindow ==
  (self.segybuf.thead.loaded \/ self.tdata.loaded)
    => /\ self.segybuf.thead.loaded /\ self.tdata.loaded
       /\ self.segybuf.thead = self.tdata
       /\ self.tdata = Range(Resolved(self).t0, Resolved(self).t1)

(* C6: if the reader fails during onScroll / onEnter, the window, the       *)
(* reader handle and both buffers are what they were before the event.      *)
C6_FailedReloadIsNoOp ==
  [][(ev'.kind \in {"scroll", "enter"} /\ ev'.out = "IOError")
       => /\ self'.cur_trace = self.cur_trace
          /\ self'.num_disp_traces = self.num_disp_traces
          /\ self'.segybuf = self.segybuf
          /\ self'.tdata = self.tdata]_vars

Config(s) ==
  <<s.cur_trace, s.num_disp_traces, s.amp_min, s.amp_max,
    s.head1_pos, s.head1_fmt, s.head2_pos, s.head2_fmt, s.def_thead>>

(* C7: when a text field cannot be converted the event fails and every      *)
(* configuration value of the session keeps its prior value.                *)
C7_RejectedInputKeepsConfig ==
  [][(ev'.kind \in WindowEvents /\ ev'.out \in {"ValueError", "UnboundLocalError"})
       => Config(self') = Config(self)]_vars

C9_SameWindowNoReload ==
  [][(ev'.kind \in {"scroll", "enter"} /\ ev'.sameWin)
       => /\ ev'.hdr.n = 0 /\ ev'.trc.n = 0
          /\ self'.segybuf.thead = self.segybuf.thead
          /\ self'.tdata = self.tdata]_vars

(* C9 as amended: a scroll / enter event whose resolved window equals the   *)
(* current one and that completes reloads again: it issues one header read  *)
(* and one trace read over that same window, and the buffers hold that      *)
(* window afterwards.                                                       *)
C9_SameWindowReloads ==
  (ev.kind \in {"scroll", "enter"} /\ ev.sameWin /\ ev.out = "ok")
    => /\ ev.hdr.n = 1 /\ ev.trc.n = 1
       /\ Range(ev.hdr.t0, ev.hdr.t1) = Range(ev.trc.t0, ev.trc.t1)
       /\ self.segybuf.thead = Range(ev.hdr.t0, ev.hdr.t1)
       /\ self.tdata = Range(ev.trc.t0, ev.trc.t1)
       /\ self.tdata = Range(Resolved(self).t0, Resolved(self).t1)

C9_Witness ==
  /\ ev.kind = "scroll" /\ ev.sameWin /\ ev.out = "ok"
  /\ ev.hdr.n = 1 /\ ev.trc.n = 1
  /\ ev.trc.t0 >= 0

WidthOfCode(fmt) ==
  CASE fmt \in {"l", "f", "ibm"} -> 4
    [] fmt = "h" -> 2
    [] fmt = "s" -> 1
    [] OTHER -> 0

(* C10: in every reachable state each header spec handed to the reader has  *)
(* the byte width of its own format code (4 for l/f/ibm, 2 for h, 1 for s)  *)
(* and its position and format code equal the session's current head       *)
(* position and format fields.                                              *)
C10_DefTheadMatchesFields ==
  /\ self.def_thead.head1.nbyte = WidthOfCode(self.def_thead.head1.fmt)
  /\ self.def_thead.head2.nbyte = WidthOfCode(self.def_thead.head2.fmt)
  /\ self.def_thead.head1.bpos = self.head1_pos
  /\ self.def_thead.head1.fmt = self.head1_fmt
  /\ self.def_thead.head2.bpos = self.head2_pos
  /\ self.def_thead.head2.fmt = self.head2_fmt

====
